---- MODULE Spec2Model ----
(***************************************************************************)
(* backupkern (src/main.rs): generational backups with hard links.         *)
(*                                                                         *)
(* One filesystem holds the source tree and the destination candidates:   *)
(* `files` maps a path to an inode, `inodes` maps an inode to the metadata *)
(* files_equal reads, `dirs` is the set of directories.  A path is a       *)
(* root ("src", "A", "B"), the name of a child of a destination root (a   *)
(* snapshot name, a sequence of character codes, <<>> for the source) and *)
(* the components below it.  A run of the program is one action: the      *)
(* resolve phase and the whole walk; the world changes between runs.      *)
(***************************************************************************)
EXTENDS Naturals, Sequences, FiniteSets, TLC

VARIABLES
    now,            \* the local clock's seconds field
    config,         \* the Config read by read_config
    files,          \* path -> inode
    inodes,         \* inode -> [size, perm, mtime]
    dirs,           \* directories below the roots
    isDir,          \* destination candidate -> whether it is a directory now
    edits,          \* source changes made so far
    runsLeft,       \* runs still to be started
    pc,             \* "idle": no run; "done": run_backup has returned
    result,         \* how the run ended: "none" | "Ok" | "NoDestination" | "Err"
    to_root,        \* run_backup's to_root (joined with the pattern)
    latest_backup,  \* run_backup's latest_backup
    done,           \* suffix -> what the walk did for that entry
    out,            \* the errors the walk printed
    faults,         \* failures of the filesystem and of cp so far
    prevRoot,       \* to_root of the run before this one
    prevSrc         \* the source files' metadata at the run before this one

vars == <<now, config, files, inodes, dirs, isDir, edits, runsLeft, pc, result,
          to_root, latest_backup, done, out, faults, prevRoot, prevSrc>>

(* ------------------------------ bounds -------------------------------- *)
StartSec == 9
MaxSec == 10
MaxRuns == 2
MaxEdits == 1
MaxFaults == 1

(* ------------------------------- paths -------------------------------- *)
P(root, snap, suffix) == [root |-> root, snap |-> snap, suffix |-> suffix]
NoPath == P("none", <<>>, <<>>)
NoFile == [size |-> 0, perm |-> 0, mtime |-> 0]

IsPrefix(l, f) == Len(l) <= Len(f) /\ SubSeq(f, 1, Len(l)) = l

\* Path::join
Join(p, s) == [p EXCEPT !.suffix = @ \o s]
\* Path::parent
Parent(p) ==
    IF p.suffix # <<>>
    THEN [p EXCEPT !.suffix = SubSeq(@, 1, Len(@) - 1)]
    ELSE [p EXCEPT !.snap = <<>>]
\* Path::file_name
FileName(p) == IF p.suffix # <<>> THEN <<p.suffix[Len(p.suffix)]>> ELSE p.snap
\* Path::starts_with: whole components
StartsWith(f, l) ==
    /\ f.root = l.root
    /\ \/ l.snap = <<>> /\ l.suffix = <<>>
       \/ f.snap = l.snap /\ IsPrefix(l.suffix, f.suffix)
\* Path::strip_prefix: the components after base, <<"?">> when base is no prefix
StripPrefix(p, base) ==
    IF StartsWith(p, base) /\ p.snap = base.snap
    THEN SubSeq(p.suffix, Len(base.suffix) + 1, Len(p.suffix))
    ELSE <<"?">>

(* --------------------------- configuration ---------------------------- *)
Roots == {"A", "B"}
StrayRoots == {"A"}
Prefix == <<20>>
Underscore == <<15>>
StrayName == <<30>>
ToChoices == {<<>>, <<"A", "B">>}
Config(to) ==
    [from |-> P("src", <<>>, <<>>),
     to |-> to,
     prefix |-> Prefix,
     exclude |-> [locations |-> <<P("src", <<>>, <<"tmp">>), P("src", <<>>, <<"ex">>)>>]]

\* Config::ignore
ignoreEq(f) ==
    \E i \in 1..Len(config.exclude.locations) : f = config.exclude.locations[i]
ignore(f) ==
    \E i \in 1..Len(config.exclude.locations) :
        StartsWith(f, config.exclude.locations[i])

(* ----------------------------- filesystem ----------------------------- *)
\* A filesystem value: the run threads one through its loop.
FS(f, i, d) == [files |-> f, inodes |-> i, dirs |-> d]
Disk == FS(files, inodes, dirs)

Mounted(p) == p.root = "src" \/ (p.root \in Roots /\ isDir[p.root])
is_file(fs, p) == Mounted(p) /\ p \in DOMAIN fs.files
is_dir(fs, p) ==
    /\ Mounted(p)
    /\ \/ p.snap = <<>> /\ p.suffix = <<>>
       \/ p \in fs.dirs
metadata(fs, p) == fs.inodes[fs.files[p]]
FreshIno(fs) ==
    CHOOSE n \in 1..(Cardinality(DOMAIN fs.inodes) + 1) : n \notin DOMAIN fs.inodes

\* The source tree: its directories are fixed, its files change between runs.
SrcDirs == {<<"ex">>, <<"sub">>}
Editable == {<<"a">>}
Removable == {<<"sub", "b">>}
WalkOrder == <<(<<"a">>), (<<"ex">>), (<<"ex", "c">>), (<<"sub">>), (<<"sub", "b">>)>>
SrcPath(s) == P("src", <<>>, s)
SrcMeta(s) == IF SrcPath(s) \in DOMAIN files THEN inodes[files[SrcPath(s)]] ELSE NoFile

\* chrono's format of "{prefix}_%Y-%m-%d_%H-%M-%S": the seconds field, two digits
Format(prefix, t) == prefix \o Underscore \o <<t \div 10, t % 10>>

(* ------------------------- get_latest_backup -------------------------- *)
RECURSIVE LexLess(_, _)
LexLess(s, t) ==
    IF s = <<>> THEN t # <<>>
    ELSE IF t = <<>> THEN FALSE
    ELSE IF s[1] # t[1] THEN s[1] < t[1]
    ELSE LexLess(Tail(s), Tail(t))
\* Ord for PathBuf, on children of one directory
PathLess(p, q) == LexLess(p.snap, q.snap)
\* Vec::sort
RECURSIVE Sort(_)
Sort(S) ==
    IF S = {} THEN <<>>
    ELSE LET m == CHOOSE m \in S : \A x \in S \ {m} : PathLess(m, x)
         IN <<m>> \o Sort(S \ {m})
\* Vec::reverse
Reverse(s) == [i \in 1..Len(s) |-> s[Len(s) + 1 - i]]
\* fs::read_dir(root): the children, files and directories alike
ReadDir(fs, root) ==
    {p \in fs.dirs \cup DOMAIN fs.files :
        p.root = root /\ p.snap # <<>> /\ p.suffix = <<>>}

get_latest_backup_unreversed(fs, backup_root) ==
    IF ~is_dir(fs, P(backup_root, <<>>, <<>>)) THEN NoPath
    ELSE LET all_old_dirs == Sort(ReadDir(fs, backup_root))
         IN IF Len(all_old_dirs) > 0 THEN all_old_dirs[1] ELSE NoPath
get_latest_backup(fs, backup_root) ==
    IF ~is_dir(fs, P(backup_root, <<>>, <<>>)) THEN NoPath
    ELSE LET all_old_dirs == Reverse(Sort(ReadDir(fs, backup_root)))
         IN IF Len(all_old_dirs) > 0 THEN all_old_dirs[1] ELSE NoPath

(* ----------------------------- files_equal ---------------------------- *)
files_equal(fs, a, b) ==
    IF FileName(a) # FileName(b) THEN FALSE
    ELSE IF ~is_file(fs, a) \/ ~is_file(fs, b) THEN FALSE
    ELSE IF metadata(fs, a).size # metadata(fs, b).size THEN FALSE
    ELSE IF metadata(fs, a).perm # metadata(fs, b).perm THEN FALSE
    ELSE metadata(fs, a).mtime = metadata(fs, b).mtime

(* ------------------------- destination selection ---------------------- *)
\* run_backup's loop over config.to: every directory overwrites to_root
RECURSIVE SelectFrom(_, _, _)
SelectFrom(to, i, acc) ==
    IF i > Len(to) THEN acc
    ELSE SelectFrom(to, i + 1, IF is_dir(Disk, P(to[i], <<>>, <<>>)) THEN to[i] ELSE acc)
RECURSIVE SelectFirstFrom(_, _)
SelectFirstFrom(to, i) ==
    IF i > Len(to) THEN "none"
    ELSE IF is_dir(Disk, P(to[i], <<>>, <<>>)) THEN to[i] ELSE SelectFirstFrom(to, i + 1)
SelectFirst(to) == SelectFirstFrom(to, 1)
SelectOrFirst(to) ==
    IF SelectFrom(to, 1, "none") = "none" /\ Len(to) > 0 THEN to[1]
    ELSE SelectFrom(to, 1, "none")
Select(to) == SelectFrom(to, 1, "none")

(* -------------------------------- Init -------------------------------- *)
Meta0 == [size |-> 1, perm |-> 1, mtime |-> 1]
Start(n) ==
    /\ now = StartSec
    /\ config \in {Config(to) : to \in ToChoices}
    /\ files = (SrcPath(<<"a">>) :> 1) @@ (SrcPath(<<"ex", "c">>) :> 2)
               @@ (SrcPath(<<"sub", "b">>) :> 3)
    /\ inodes = (1 :> Meta0) @@ (2 :> Meta0) @@ (3 :> Meta0)
    /\ dirs = {SrcPath(d) : d \in SrcDirs}
    /\ isDir \in [Roots -> BOOLEAN]
    /\ edits = 0
    /\ runsLeft = n
    /\ pc = "idle"
    /\ result = "none"
    /\ to_root = NoPath
    /\ latest_backup = NoPath
    /\ done = <<>>
    /\ out = {}
    /\ faults = 0
    /\ prevRoot = NoPath
    /\ prevSrc = [s \in Editable \cup Removable |-> NoFile]
Init == Start(MaxRuns)
\* The same program and world, observed for one more run
InitLong == Start(MaxRuns + 1)

runvars == <<pc, result, to_root, latest_backup, done, out, faults, prevRoot, prevSrc, runsLeft>>
fsvars == <<files, inodes, dirs>>
envvars == <<now, config, isDir, edits>>

(* ------------------------ the world between runs ---------------------- *)
\* The clock's seconds advance.
Tick ==
    /\ pc = "idle" /\ now < MaxSec
    /\ now' = now + 1
    /\ UNCHANGED <<config, isDir, edits>> /\ UNCHANGED fsvars /\ UNCHANGED runvars

Other(v) == IF v = 1 THEN 2 ELSE 1
\* A source file is rewritten in place: one of size, permissions, mtime changes.
EditSrc(s, field) ==
    /\ pc = "idle" /\ edits < MaxEdits
    /\ SrcPath(s) \in DOMAIN files
    /\ edits' = edits + 1
    /\ inodes' = [inodes EXCEPT ![files[SrcPath(s)]] =
                     CASE field = "size" -> [@ EXCEPT !.size = Other(@)]
                       [] field = "perm" -> [@ EXCEPT !.perm = Other(@)]
                       [] OTHER -> [@ EXCEPT !.mtime = Other(@)]]
    /\ UNCHANGED <<now, config, isDir, files, dirs>> /\ UNCHANGED runvars

\* A source file is removed.
DeleteSrc(s) ==
    /\ pc = "idle" /\ edits < MaxEdits
    /\ SrcPath(s) \in DOMAIN files
    /\ edits' = edits + 1
    /\ files' = [p \in DOMAIN files \ {SrcPath(s)} |-> files[p]]
    /\ inodes' = [i \in DOMAIN inodes \ {files[SrcPath(s)]} |-> inodes[i]]
    /\ UNCHANGED <<now, config, isDir, dirs>> /\ UNCHANGED runvars

\* A destination candidate that was missing is mounted.
Mount(r) ==
    /\ pc = "idle" /\ ~isDir[r]
    /\ isDir' = [isDir EXCEPT ![r] = TRUE]
    /\ UNCHANGED <<now, config, edits>> /\ UNCHANGED fsvars /\ UNCHANGED runvars

\* Someone puts a regular file beside the snapshots of a destination candidate.
CreateStray(r) ==
    /\ pc = "idle" /\ isDir[r]
    /\ P(r, StrayName, <<>>) \notin DOMAIN files
    /\ files' = files @@ (P(r, StrayName, <<>>) :> FreshIno(Disk))
    /\ inodes' = inodes @@ (FreshIno(Disk) :> Meta0)
    /\ UNCHANGED <<now, config, isDir, edits, dirs>> /\ UNCHANGED runvars

(* ------------------------------ cp, copy_file -------------------------- *)
\* What a primitive leaves behind: the filesystem and whether it returned Err.
Outcome(fs, e) == [fs |-> fs, err |-> e]

\* fs::hard_link(original, link); fault "io" is an error of the link call
hard_link(fs, original, link, fault) ==
    IF \/ fault = "io"
       \/ ~is_file(fs, original)
       \/ link \in DOMAIN fs.files
       \/ link \in fs.dirs
    THEN Outcome(fs, TRUE)
    ELSE Outcome([fs EXCEPT !.files = @ @@ (link :> fs.files[original])], FALSE)

\* cp: `cp -p from to` run through Command::output()?, whose Err is only the
\* failure to run the command (fault "io"); the exit status (fault "status":
\* cp ran and failed) is dropped.  cp writes an existing target in place.
cp(fs, copy_from, copy_to, fault) ==
    IF fault = "io" THEN Outcome(fs, TRUE)
    ELSE IF fault = "status" \/ ~is_file(fs, copy_from) THEN Outcome(fs, FALSE)
    ELSE IF copy_to \in DOMAIN fs.files
    THEN Outcome([fs EXCEPT !.inodes[fs.files[copy_to]] = metadata(fs, copy_from)], FALSE)
    ELSE Outcome([fs EXCEPT !.files = @ @@ (copy_to :> FreshIno(fs)),
                            !.inodes = @ @@ (FreshIno(fs) :> metadata(fs, copy_from))],
                 FALSE)

copy_file(fs, copy_from, copy_to, suffix, latest, fault) ==
    IF latest # NoPath
    THEN LET previous_version == Join(latest, suffix)
         IN IF files_equal(fs, previous_version, copy_from)
            THEN hard_link(fs, previous_version, copy_to, fault)
            ELSE cp(fs, copy_from, copy_to, fault)
    ELSE cp(fs, copy_from, copy_to, fault)

\* fs::create_dir_all(p): p and its missing ancestors below the root
Ancestors(p) == {[p EXCEPT !.suffix = SubSeq(p.suffix, 1, k)] : k \in 0..Len(p.suffix)}

(* ------------------------------ run_backup ---------------------------- *)
\* WalkDir::new(from).min_depth(1): the entries that exist, in walk order
Entries(fs) ==
    SelectSeq(WalkOrder, LAMBDA s : s \in SrcDirs \/ SrcPath(s) \in DOMAIN fs.files)

\* The state of the loop: the filesystem, what was done for each entry (the
\* primitive used, what files_equal said, the fault met, copy_file's Err), the
\* errors printed, the faults so far, whether a `?` returned from run_backup.
Loop(fs, dn, o, n, ab) ==
    [fs |-> fs, done |-> dn, out |-> o, faults |-> n, aborted |-> ab]
Step(did, equal, fault, err) == [did |-> did, equal |-> equal, fault |-> fault, err |-> err]
Faults == {"none", "walk", "mkdir", "io", "status"}

\* Whether copy_file takes the hard_link branch for the entry
WouldLink(fs, copy_from, latest) ==
    /\ latest # NoPath
    /\ files_equal(fs, Join(latest, StripPrefix(copy_from, config.from)), copy_from)

\* The faults the entry can meet: the walk fails to read it, create_dir_all
\* fails, the link call or the start of cp fails, cp exits with an error.
CanMeet(w, path, latest, fault) ==
    \/ fault = "none"
    \/ /\ w.faults < MaxFaults
       /\ \/ fault = "walk"
          \/ /\ ~is_dir(w.fs, path) /\ ~ignore(path)
             /\ fault = "status" => ~WouldLink(w.fs, path, latest)

\* One iteration of the loop over the walk
LoopBody(w, path, root, latest, fault) ==
    IF fault = "walk"
    THEN [w EXCEPT !.out = @ \cup {[path |-> path, kind |-> "walk"]},
                   !.faults = @ + 1]
    ELSE IF is_dir(w.fs, path) THEN w
    ELSE IF ignore(path) THEN w
    ELSE LET copy_from == path
             suffix == StripPrefix(copy_from, config.from)
             copy_to == Join(root, suffix)
             made == Ancestors(Parent(copy_to))
             n == IF fault = "none" THEN w.faults ELSE w.faults + 1
         IN IF suffix = <<"?">>
            THEN [w EXCEPT !.aborted = TRUE]
            ELSE IF fault = "mkdir" \/ \E d \in made : d \in DOMAIN w.fs.files
            THEN [w EXCEPT !.aborted = TRUE, !.faults = n,
                           !.done = @ @@ (suffix :> Step("mkdir", FALSE, fault, TRUE))]
            ELSE LET fs1 == [w.fs EXCEPT !.dirs = @ \cup made]
                     link == WouldLink(w.fs, copy_from, latest)
                     r == copy_file(fs1, copy_from, copy_to, suffix, latest, fault)
                 IN Loop(r.fs,
                         w.done @@ (suffix :> Step(IF link THEN "link" ELSE "cp",
                                                   link, fault, r.err)),
                         IF r.err
                         THEN w.out \cup {[path |-> copy_from, kind |-> "copy"]}
                         ELSE w.out,
                         n, FALSE)

\* The loop from entry i on: every way it can end
RECURSIVE WalkFrom(_, _, _, _, _)
WalkFrom(entries, i, w, root, latest) ==
    IF i > Len(entries) \/ w.aborted THEN {w}
    ELSE LET path == Join(config.from, entries[i])
         IN UNION {WalkFrom(entries, i + 1, LoopBody(w, path, root, latest, fault),
                            root, latest) :
                   fault \in {f \in Faults : CanMeet(w, path, latest, f)}}

\* main: an empty `to` ends the program before run_backup
MainNoLocation ==
    /\ pc = "idle" /\ runsLeft > 0
    /\ Len(config.to) < 1
    /\ runsLeft' = runsLeft - 1
    /\ pc' = "done" /\ result' = "NoDestination"
    /\ UNCHANGED <<to_root, latest_backup, done, out, faults, prevRoot, prevSrc>>
    /\ UNCHANGED envvars /\ UNCHANGED fsvars

\* run_backup when no candidate is a directory
NoDestination ==
    /\ pc = "idle" /\ runsLeft > 0
    /\ Len(config.to) >= 1
    /\ Select(config.to) = "none"
    /\ runsLeft' = runsLeft - 1
    /\ pc' = "done" /\ result' = "NoDestination"
    /\ UNCHANGED <<to_root, latest_backup, done, out, faults, prevRoot, prevSrc>>
    /\ UNCHANGED envvars /\ UNCHANGED fsvars

\* run_backup: the write root, the pattern, the latest backup of config.to[0],
\* then the walk
run_backup ==
    /\ pc = "idle" /\ runsLeft > 0
    /\ Len(config.to) >= 1
    /\ Select(config.to) # "none"
    /\ runsLeft' = runsLeft - 1
    /\ LET root == P(Select(config.to), Format(config.prefix, now), <<>>)
           latest == get_latest_backup(Disk, config.to[1])
       IN /\ to_root' = root
          /\ latest_backup' = latest
          /\ \E w \in WalkFrom(Entries(Disk), 1, Loop(Disk, <<>>, {}, faults, FALSE),
                               root, latest) :
                /\ files' = w.fs.files
                /\ inodes' = w.fs.inodes
                /\ dirs' = w.fs.dirs
                /\ done' = w.done
                /\ out' = w.out
                /\ faults' = w.faults
                /\ result' = IF w.aborted THEN "Err" ELSE "Ok"
    /\ pc' = "done"
    /\ UNCHANGED <<prevRoot, prevSrc>>
    /\ UNCHANGED envvars

\* main returns: the process and its memory are gone
Exit ==
    /\ pc = "done"
    /\ pc' = "idle" /\ result' = "none"
    /\ to_root' = NoPath /\ latest_backup' = NoPath
    /\ done' = <<>> /\ out' = {}
    /\ prevRoot' = IF to_root # NoPath THEN to_root ELSE prevRoot
    /\ prevSrc' = IF to_root # NoPath
                  THEN [s \in Editable \cup Removable |-> SrcMeta(s)]
                  ELSE prevSrc
    /\ UNCHANGED <<runsLeft, faults>>
    /\ UNCHANGED envvars /\ UNCHANGED fsvars

Next ==
    \/ Tick
    \/ \E s \in Editable, field \in {"size", "perm", "mtime"} : EditSrc(s, field)
    \/ \E s \in Removable : DeleteSrc(s)
    \/ \E r \in Roots : Mount(r)
    \/ \E r \in StrayRoots : CreateStray(r)
    \/ MainNoLocation
    \/ NoDestination
    \/ run_backup
    \/ Exit

Spec == Init /\ [][Next]_vars
SpecLong == InitLong /\ [][Next]_vars

(* ------------------------------ the claims ---------------------------- *)
\* run_backup reached the walk and has returned
Walked == pc = "done" /\ to_root # NoPath
\* the regular files of the source tree, by suffix
FileEntries == {s \in Editable \cup Removable \cup {<<"ex", "c">>} : SrcPath(s) \in DOMAIN files}
\* the entry lies at or under an exclusion location, component by component
UnderExclusion(s) ==
    \E i \in 1..Len(config.exclude.locations) :
        LET l == config.exclude.locations[i]
        IN l.root = "src" /\ Len(l.suffix) <= Len(s)
           /\ \A k \in 1..Len(l.suffix) : l.suffix[k] = s[k]
Eligible == {s \in FileEntries : ~UnderExclusion(s)}
\* the walk printed an error for the entry itself
WalkFailed(s) == [path |-> SrcPath(s), kind |-> "walk"] \in out
\* nothing failed in the run, reported or not
NoFailure == out = {} /\ \A s \in DOMAIN done : done[s].fault = "none" /\ ~done[s].err
\* what lies in the snapshot directory `root`
FilesUnder(root) == {p \in DOMAIN files : p.root = root.root /\ p.snap = root.snap}
DirsUnder(root) == {d \in dirs : d.root = root.root /\ d.snap = root.snap}

\* C1: of two consecutive runs, the second places every non-excluded regular
\* file whose size, permissions and mtime did not change in between as a hard
\* link to the first run's file at the same suffix (same inode).  Stated for the
\* files the first run did materialize, and for a second run without failure.
C1_UnchangedIsLinked ==
    (Walked /\ result = "Ok" /\ NoFailure /\ prevRoot # NoPath) =>
        \A s \in Eligible \cap DOMAIN prevSrc :
            (prevSrc[s] = SrcMeta(s) /\ Join(prevRoot, s) \in DOMAIN files) =>
                /\ Join(to_root, s) \in DOMAIN files
                /\ files[Join(to_root, s)] = files[Join(prevRoot, s)]

\* C2: a file whose size, permissions or mtime differ from those of the file at
\* the same suffix in the prior generation is placed as a copy that shares no
\* inode with the prior generation's file.  Stated for a prior generation that
\* is not the directory the run writes, and for a cp that did not fail.
\* Checked under SpecLong: the case takes three runs.
C2_ChangedIsCopied ==
    (Walked /\ latest_backup # NoPath /\ latest_backup # to_root) =>
        \A s \in DOMAIN done :
            (/\ done[s].did = "cp" /\ ~done[s].equal
             /\ done[s].fault = "none" /\ ~done[s].err
             /\ Join(latest_backup, s) \in DOMAIN files) =>
                /\ Join(to_root, s) \in DOMAIN files
                /\ files[Join(to_root, s)] # files[Join(latest_backup, s)]

\* C3: the failure of one file (of its create_dir_all, its link or its copy)
\* never aborts the run: run_backup returns Ok and every eligible entry the walk
\* could read was processed.
C3_FailureNeverAborts ==
    Walked =>
        /\ result = "Ok"
        /\ \A s \in Eligible : ~WalkFailed(s) => s \in DOMAIN done

\* C4: a run leaves every file and directory that was on a destination before
\* it started as it was: same path, same inode, same metadata.
C4_EarlierSnapshotsUnchanged ==
    [][(pc = "idle" /\ pc' = "done") =>
          /\ \A p \in DOMAIN files :
                p.root \in Roots =>
                    /\ p \in DOMAIN files'
                    /\ files'[p] = files[p]
                    /\ inodes'[files[p]] = inodes[files[p]]
          /\ \A d \in dirs : d \in dirs']_vars

\* C5: with an empty destination list, or no candidate that is a directory, the
\* run ends with NoDestination and changes nothing on the filesystem.
NoCandidateIsDir == \A i \in 1..Len(config.to) : ~isDir[config.to[i]]
C5_NoDestinationNoMutation ==
    [][(pc = "idle" /\ pc' = "done" /\ NoCandidateIsDir) =>
          /\ result' = "NoDestination"
          /\ files' = files /\ inodes' = inodes /\ dirs' = dirs]_vars
C5_Witness ==
    /\ pc = "done" /\ result = "NoDestination"
    /\ Len(config.to) >= 1 /\ NoCandidateIsDir

\* C6: for an entry at or under an exclusion location, at any depth, nothing is
\* attempted (no comparison, copy, link or directory creation) and no snapshot
\* holds a file or a directory at its suffix.
C6_ExcludedNeverTouched ==
    /\ \A s \in DOMAIN done : ~UnderExclusion(s)
    /\ \A p \in DOMAIN files \cup dirs :
          (p.root \in Roots /\ p.suffix # <<>>) => ~UnderExclusion(p.suffix)
C6_Witness ==
    /\ Walked /\ result = "Ok"
    /\ <<"ex", "c">> \in FileEntries
    /\ Join(to_root, <<"a">>) \in DOMAIN files
    /\ Join(to_root, <<"sub", "b">>) \in DOMAIN files

\* C7: after a run without any failure the snapshot directory holds exactly one
\* file per non-excluded file of the source, at the same suffix, and only the
\* directories that are parents of those files.
C7_SnapshotMirrorsSource ==
    (Walked /\ result = "Ok" /\ NoFailure) =>
        /\ FilesUnder(to_root) = {Join(to_root, s) : s \in Eligible}
        /\ DirsUnder(to_root) =
              UNION {Ancestors(Parent(Join(to_root, s))) : s \in Eligible}

\* C8: whenever the copy fails for a file (cp exits with an error, or cannot be
\* run), copy_file returns an error and the walk reports it.
C8_CopyFailureIsError ==
    \A s \in DOMAIN done :
        (done[s].did = "cp" /\ done[s].fault \in {"io", "status"}) =>
            /\ done[s].err
            /\ [path |-> SrcPath(s), kind |-> "copy"] \in out

\* C9: the write root is the last configured candidate that is a directory, the
\* new snapshot root is it joined with the snapshot name, and the selection
\* fails only when no candidate is a directory.
C9_LastDirectoryWins ==
    /\ Walked =>
          /\ \E i \in 1..Len(config.to) :
                /\ to_root.root = config.to[i]
                /\ isDir[config.to[i]]
                /\ \A j \in (i + 1)..Len(config.to) : ~isDir[config.to[j]]
          /\ to_root.snap = Format(config.prefix, now)
          /\ to_root.suffix = <<>>
    /\ (pc = "done" /\ result = "NoDestination") => NoCandidateIsDir
C9_Witness ==
    /\ Walked /\ isDir["A"] /\ isDir["B"]
    /\ config.to = <<"A", "B">>
    /\ to_root.root = "B"

\* C10: get_latest_backup is none for a root that cannot be listed or has no
\* children, and else the child with the lexicographically greatest name, of
\* whatever type; when every child is a snapshot directory of the same prefix
\* that is the snapshot of the latest time.
Times == StartSec..MaxSec
SnapTimes(kids) == {t \in Times : \E k \in kids : k.snap = Format(Prefix, t)}
OnlySnapshots(kids) ==
    \A k \in kids : k \in dirs /\ \E t \in Times : k.snap = Format(Prefix, t)
C10_LatestIsGreatest ==
    \A r \in Roots :
        LET kids == {p \in dirs \cup DOMAIN files :
                        p.root = r /\ p.snap # <<>> /\ p.suffix = <<>>}
            g == get_latest_backup(Disk, r)
        IN /\ (~isDir[r] \/ kids = {}) => g = NoPath
           /\ (isDir[r] /\ kids # {}) =>
                 /\ g \in kids
                 /\ \A k \in kids : k = g \/ LexLess(k.snap, g.snap)
           /\ (isDir[r] /\ kids # {} /\ OnlySnapshots(kids)) =>
                 /\ \A t \in SnapTimes(kids) :
                       g.snap = Format(Prefix, t) \/ \E u \in SnapTimes(kids) : u > t
                 /\ \E t \in SnapTimes(kids) : g.snap = Format(Prefix, t)
C10_Witness ==
    /\ isDir["A"]
    /\ P("A", Format(Prefix, StartSec), <<>>) \in dirs
    /\ P("A", Format(Prefix, StartSec + 1), <<>>) \in dirs
    /\ P("A", StrayName, <<>>) \notin DOMAIN files
    /\ get_latest_backup(Disk, "A") = P("A", Format(Prefix, StartSec + 1), <<>>)
====
